---- MODULE Spec2Model ----
(***************************************************************************)
(* A model of ordnung's Map (src/src/lib.rs): a binary search tree on      *)
(* cached hashes, threaded through the indices of one growable array.      *)
(*                                                                         *)
(* Store indices are 0-based as in the source; the TLA+ sequence element   *)
(* of index i is s[i + 1].  A link is an Option<NonZeroU32>: the number 0  *)
(* is None, any other number n is Some(n).  A value of 0 in a result is    *)
(* the absent result (None); stored values are 1..NumVals.                 *)
(***************************************************************************)
EXTENDS Integers, Sequences, FiniteSets

\* Bounds of the model.
NumKeys == 3
NumVals == 2
HashRange == 4
NumSeeds == 4

\* Width of a link.  Node links are NonZeroU32 (32 bits); TLC's integers are
\* 32-bit signed, so the widest modulus it can form is 2^30.  Store lengths
\* in Spec stay far below either.
LinkBits == 30

Keys == 1..NumKeys
Vals == 1..NumVals
Seeds == 0..(NumSeeds - 1)

VARIABLES
    store,  \* Map::store, the sequence of nodes
    seed,   \* the key of the hasher, fixed for one build
    bits,   \* the width of a link in bits
    last,   \* the last operation: its name, arguments, result and the store before it
    abs,    \* reference: the entries as an insertion-ordered list of <<key, value>>
    other,  \* the store of a second map, the right-hand side of a comparison
    it      \* an iterator (Iter or IterMut) and what it has yielded so far

vars == <<store, seed, bits, last, abs, other, it>>

----------------------------------------------------------------------------
\* The code

\* hash_key: a deterministic hash of the key under the hasher's key.
hash_key(key) == (key * seed) % HashRange

\* Node::new
Node(key, value, hash) ==
    [key |-> key, hash |-> hash, value |-> value, left |-> 0, right |-> 0]

\* Mutant of as_u32: the length is not narrowed.
as_usize(n, w) == n

\* `as u32`
as_u32(n, w) == n % (2 ^ w)

\* NonZeroU32::new: None (0) for 0, Some(n) otherwise.
NonZeroU32_new(n) == IF n = 0 THEN 0 ELSE n

\* Map::len, Map::is_empty
len(s) == Len(s)
is_empty(s) == Len(s) = 0

\* Vec::push of the backing array.
push(s, node) == Append(s, node)

\* Cell::set on the link `side` of the node at index idx.
SetLink(s, idx, side, link) ==
    IF side = "left"
    THEN [s EXCEPT ![idx + 1] = [@ EXCEPT !.left = link]]
    ELSE [s EXCEPT ![idx + 1] = [@ EXCEPT !.right = link]]

FindResult(kind, idx, side, visited) ==
    [kind |-> kind, idx |-> idx, side |-> side, visited |-> visited]

\* The loop of Map::find from index idx, having read `visited` nodes.
\* get_unchecked on an index outside the store is an out-of-bounds read
\* ("OutOfBounds"); a loop that has read len nodes and goes on revisits an
\* index and never ends ("Diverge").
RECURSIVE descend(_, _, _, _, _)
descend(s, key, hash, idx, visited) ==
    IF idx >= Len(s) THEN FindResult("OutOfBounds", idx, "none", visited)
    ELSE IF visited >= Len(s) THEN FindResult("Diverge", idx, "none", visited)
    ELSE LET node == s[idx + 1] IN
        IF hash = node.hash /\ key = node.key
        THEN FindResult("Hit", idx, "none", visited + 1)
        ELSE IF hash < node.hash
        THEN IF node.left # 0
             THEN descend(s, key, hash, node.left, visited + 1)
             ELSE FindResult("Miss", idx, "left", visited + 1)
        ELSE IF node.right # 0
             THEN descend(s, key, hash, node.right, visited + 1)
             ELSE FindResult("Miss", idx, "right", visited + 1)

\* Mutant of find: a node of equal hash is a hit whatever its key.
RECURSIVE descend_hash_only(_, _, _, _, _)
descend_hash_only(s, key, hash, idx, visited) ==
    IF idx >= Len(s) THEN FindResult("OutOfBounds", idx, "none", visited)
    ELSE IF visited >= Len(s) THEN FindResult("Diverge", idx, "none", visited)
    ELSE LET node == s[idx + 1] IN
        IF hash = node.hash
        THEN FindResult("Hit", idx, "none", visited + 1)
        ELSE IF hash < node.hash
        THEN IF node.left # 0
             THEN descend_hash_only(s, key, hash, node.left, visited + 1)
             ELSE FindResult("Miss", idx, "left", visited + 1)
        ELSE IF node.right # 0
             THEN descend_hash_only(s, key, hash, node.right, visited + 1)
             ELSE FindResult("Miss", idx, "right", visited + 1)

find_hash_only(s, key, hash) ==
    IF len(s) = 0 THEN FindResult("Miss", 0, "none", 0)
    ELSE descend_hash_only(s, key, hash, 0, 0)

\* Map::find.  Miss with side "none" is Miss(None).
find(s, key, hash) ==
    IF len(s) = 0 THEN FindResult("Miss", 0, "none", 0)
    ELSE descend(s, key, hash, 0, 0)

\* Mutant of patch: the new index is always written to the right link.
patch_always_right(s, r, w) ==
    IF r.side # "none"
    THEN SetLink(s, r.idx, "right", NonZeroU32_new(as_u32(Len(s), w)))
    ELSE s

\* Mutant of patch: the link is computed from the length after the push.
patch_off_by_one(s, r, w) ==
    IF r.side # "none"
    THEN SetLink(s, r.idx, r.side, NonZeroU32_new(as_u32(Len(s) + 1, w)))
    ELSE s

\* Mutant of patch: the new index is written to the link of the other side.
patch_swapped(s, r, w) ==
    IF r.side # "none"
    THEN SetLink(s, r.idx, IF r.side = "left" THEN "right" ELSE "left",
                 NonZeroU32_new(as_u32(Len(s), w)))
    ELSE s

\* Mutant of patch: the link is given the index of the parent itself.
patch_parent_index(s, r, w) ==
    IF r.side # "none"
    THEN SetLink(s, r.idx, r.side, NonZeroU32_new(as_u32(r.idx, w)))
    ELSE s

\* `parent.set(NonZeroU32::new(self.store.len() as u32))` when the miss
\* reports a parent link.
patch(s, r, w) ==
    IF r.side # "none"
    THEN SetLink(s, r.idx, r.side, NonZeroU32_new(as_u32(Len(s), w)))
    ELSE s

\* Mutant of insert: a hit appends a second node instead of overwriting.
insert_always_push(s, key, value, w) ==
    LET hash == hash_key(key)
        r == find(s, key, hash)
    IN  push(patch(s, r, w), Node(key, value, hash))

\* Map::insert: the store after insert(key, value).
insert(s, key, value, w) ==
    LET hash == hash_key(key)
        r == find(s, key, hash)
    IN  IF r.kind = "Hit"
        THEN [s EXCEPT ![r.idx + 1] = [@ EXCEPT !.value = value]]
        ELSE push(patch(s, r, w), Node(key, value, hash))

\* Map::get: the value, or 0 for None.
get(s, key) ==
    LET r == find(s, key, hash_key(key))
    IN  IF r.kind = "Hit" THEN s[r.idx + 1].value ELSE 0

\* Mutant of get_or_insert: `fill` is called before the descent is examined.
get_or_insert_eager(s, key, produced, w) ==
    LET hash == hash_key(key)
        r == find(s, key, hash)
    IN  IF r.kind = "Hit"
        THEN [store |-> s, idx |-> r.idx, calls |-> 1]
        ELSE [store |-> push(patch(s, r, w), Node(key, produced, hash)),
              idx |-> Len(s), calls |-> 1]

\* Map::get_or_insert: the store after the call, the index of the entry the
\* returned reference points to, and the number of calls of `fill`, whose
\* result is `produced`.
get_or_insert(s, key, produced, w) ==
    LET hash == hash_key(key)
        r == find(s, key, hash)
    IN  IF r.kind = "Hit"
        THEN [store |-> s, idx |-> r.idx, calls |-> 0]
        ELSE [store |-> push(patch(s, r, w), Node(key, produced, hash)),
              idx |-> Len(s), calls |-> 1]

\* Mutant of reinsert: the parent's link is not written.
reinsert_unlinked(s, key, value, hash, w) == push(s, Node(key, value, hash))

\* The body of the else branch of the loop of Map::remove: re-insert a node
\* of the old store without hashing it again.
reinsert(s, key, value, hash, w) ==
    LET r == find(s, key, hash)
    IN  push(IF r.kind = "Miss" THEN patch(s, r, w) ELSE s,
             Node(key, value, hash))

\* The loop of Map::remove over the old store, from position i up to (not
\* including) position stop, skipping `index`; acc is self.store.
RECURSIVE rebuild(_, _, _, _, _, _)
rebuild(old, index, i, stop, acc, w) ==
    IF i >= stop THEN acc
    ELSE IF i = index THEN rebuild(old, index, i + 1, stop, acc, w)
    ELSE rebuild(old, index, i + 1, stop,
                 reinsert(acc, old[i + 1].key, old[i + 1].value, old[i + 1].hash, w), w)

\* Mutant of remove: the last node is moved into the removed slot
\* (swap_remove) before the tree is rebuilt.
remove_swap(s, key, w) ==
    LET r == find(s, key, hash_key(key))
        moved == [i \in 1..(Len(s) - 1) |-> IF i = r.idx + 1 THEN s[Len(s)] ELSE s[i]]
    IN  IF r.kind # "Hit"
        THEN [store |-> s, removed |-> 0]
        ELSE [store |-> rebuild(moved, -1, 0, Len(moved), <<>>, w),
              removed |-> s[r.idx + 1].value]

\* Mutant of remove: the store is taken out of the map before the miss
\* returns.
remove_take_first(s, key, w) ==
    LET r == find(s, key, hash_key(key))
    IN  IF r.kind # "Hit"
        THEN [store |-> <<>>, removed |-> 0]
        ELSE [store |-> rebuild(s, r.idx, 0, Len(s), <<>>, w),
              removed |-> s[r.idx + 1].value]

\* Map::remove: the store after the call and the returned value (0: None).
remove(s, key, w) ==
    LET r == find(s, key, hash_key(key))
    IN  IF r.kind # "Hit"
        THEN [store |-> s, removed |-> 0]
        ELSE [store |-> rebuild(s, r.idx, 0, Len(s), <<>>, w),
              removed |-> s[r.idx + 1].value]

\* Map::clear
clear(s) == <<>>

\* The backing array (compact::Vec) may fail to grow in push; the failure
\* ends the operation that called push, and the map lives on.
PushMayFail == TRUE

\* Map::insert left by unwinding from `self.store.push`: the store it leaves.
insert_unwound(s, key, w) ==
    LET r == find(s, key, hash_key(key))
    IN  IF r.kind = "Hit" THEN s ELSE patch(s, r, w)

\* Map::get_or_insert left by unwinding from `fill()`: the store it leaves.
get_or_insert_unwound(s, key, w) ==
    LET r == find(s, key, hash_key(key))
    IN  IF r.kind = "Hit" THEN s ELSE patch(s, r, w)

\* Map::remove left by unwinding in the iteration of its loop for the old
\* index stop: from the key comparison of `self.find` (patched = FALSE) or
\* from `self.store.push` (patched = TRUE).  The store it leaves is
\* self.store, which mem::replace made the new array before the loop.
remove_unwound(s, key, stop, patched, w) ==
    LET r == find(s, key, hash_key(key))
        acc == rebuild(s, r.idx, 0, stop, <<>>, w)
        r2 == find(acc, s[stop + 1].key, s[stop + 1].hash)
    IN  IF patched /\ r2.kind = "Miss" THEN patch(acc, r2, w) ELSE acc

\* Mutant of eq: the lengths are not compared.
eq_no_len(a, b) ==
    \A i \in 1..Len(a) :
        LET r == find(b, a[i].key, a[i].hash)
        IN  r.kind = "Hit" /\ b[r.idx + 1].value = a[i].value

\* PartialEq for Map: a == b.
eq(a, b) ==
    IF len(a) # len(b) THEN FALSE
    ELSE \A i \in 1..Len(a) :
            LET r == find(b, a[i].key, a[i].hash)
            IN  r.kind = "Hit" /\ b[r.idx + 1].value = a[i].value

\* Map::iter and Iter::next: the sequence of (key, value) a forward
\* iteration yields.
iter(s) == [i \in 1..Len(s) |-> <<s[i].key, s[i].value>>]

----------------------------------------------------------------------------
\* The reference: an insertion-ordered association list.

AbsHas(a, key) == \E i \in 1..Len(a) : a[i][1] = key
AbsGet(a, key) ==
    IF AbsHas(a, key) THEN (CHOOSE p \in {a[i] : i \in 1..Len(a)} : p[1] = key)[2] ELSE 0
AbsPut(a, key, value) ==
    IF AbsHas(a, key)
    THEN [i \in 1..Len(a) |-> IF a[i][1] = key THEN <<key, value>> ELSE a[i]]
    ELSE Append(a, <<key, value>>)
AbsDel(a, key) == SelectSeq(a, LAMBDA p : p[1] # key)

----------------------------------------------------------------------------
\* The state machine

Op(op, key, val, ret, idx, calls) ==
    [op |-> op, key |-> key, val |-> val, ret |-> ret, idx |-> idx,
     calls |-> calls, pre |-> store]

\* An operation runs to its end only when its descents end in a hit or a miss.
Defined(s, key) == find(s, key, hash_key(key)).kind \in {"Hit", "Miss"}

\* No operation has read outside the store.
Running == last.op # "out_of_bounds"

Init ==
    /\ store = <<>>
    /\ seed \in Seeds
    /\ bits = LinkBits
    /\ last = [op |-> "new", key |-> 0, val |-> 0, ret |-> 0, idx |-> -1,
               calls |-> 0, pre |-> <<>>]
    /\ abs = <<>>
    /\ other = <<>>
    /\ it = [src |-> "none", mutable |-> FALSE, lo |-> 0, hi |-> 0, n |-> 0, out |-> <<>>]

Insert(key, value) ==
    /\ Running
    /\ Defined(store, key)
    /\ store' = insert(store, key, value, bits)
    /\ last' = Op("insert", key, value, 0, -1, 0)
    /\ abs' = AbsPut(abs, key, value)
    /\ UNCHANGED <<seed, bits, it, other>>

Get(key) ==
    /\ Running
    /\ Defined(store, key)
    /\ last' = Op("get", key, 0, get(store, key), -1, 0)
    /\ UNCHANGED <<store, seed, bits, it, abs, other>>

GetOrInsert(key, produced) ==
    /\ Running
    /\ Defined(store, key)
    /\ LET g == get_or_insert(store, key, produced, bits)
       IN  /\ store' = g.store
           /\ last' = Op("get_or_insert", key, IF g.calls = 0 THEN 0 ELSE produced,
                         g.store[g.idx + 1].value, g.idx, g.calls)
    /\ abs' = IF AbsHas(abs, key) THEN abs ELSE AbsPut(abs, key, produced)
    /\ UNCHANGED <<seed, bits, it, other>>

Remove(key) ==
    /\ Running
    /\ Defined(store, key)
    /\ LET r == remove(store, key, bits)
       IN  /\ store' = r.store
           /\ last' = Op("remove", key, 0, r.removed, -1, 0)
    /\ abs' = AbsDel(abs, key)
    /\ UNCHANGED <<seed, bits, it, other>>

Clear ==
    /\ Running
    /\ store' = clear(store)
    /\ last' = Op("clear", 0, 0, 0, -1, 0)
    /\ abs' = <<>>
    /\ UNCHANGED <<seed, bits, it, other>>

Next ==
    \/ \E key \in Keys, value \in Vals : Insert(key, value)
    \/ \E key \in Keys : Get(key)
    \/ \E key \in Keys, produced \in Vals : GetOrInsert(key, produced)
    \/ \E key \in Keys : Remove(key)
    \/ Clear

Spec == Init /\ [][Next]_vars

----------------------------------------------------------------------------
\* Operations that fail part-way.  The reference list keeps the entries of
\* before the call.

\* insert of an absent key whose push fails.
InsertPushFails(key) ==
    /\ Running
    /\ PushMayFail
    /\ find(store, key, hash_key(key)).kind = "Miss"
    /\ store' = insert_unwound(store, key, bits)
    /\ last' = Op("insert_failed", key, 0, 0, -1, 0)
    /\ UNCHANGED <<seed, bits, it, abs, other>>

\* get_or_insert of an absent key whose producer panics.
GetOrInsertFillFails(key) ==
    /\ Running
    /\ find(store, key, hash_key(key)).kind = "Miss"
    /\ store' = get_or_insert_unwound(store, key, bits)
    /\ last' = Op("get_or_insert_failed", key, 0, 0, -1, 1)
    /\ UNCHANGED <<seed, bits, it, abs, other>>

\* remove of a present key whose rebuild fails at the old index stop: in the
\* key comparison of the descent, which needs a node to compare with, or in
\* the append.
RemoveRebuildFails(key, stop, patched) ==
    /\ Running
    /\ LET r == find(store, key, hash_key(key))
       IN  /\ r.kind = "Hit"
           /\ stop < Len(store)
           /\ stop # r.idx
           /\ patched => PushMayFail
           /\ ~patched => Len(rebuild(store, r.idx, 0, stop, <<>>, bits)) > 0
    /\ store' = remove_unwound(store, key, stop, patched, bits)
    /\ last' = Op("remove_failed", key, stop, 0, -1, 0)
    /\ UNCHANGED <<seed, bits, it, abs, other>>

\* A descent that reads outside the store: undefined behaviour, which the
\* model does not follow further.
OutOfBoundsRead(key) ==
    /\ Running
    /\ find(store, key, hash_key(key)).kind = "OutOfBounds"
    /\ last' = Op("out_of_bounds", key, 0, 0, -1, 0)
    /\ UNCHANGED <<store, seed, bits, it, abs, other>>

NextFail ==
    \/ Next
    \/ \E key \in Keys : InsertPushFails(key)
    \/ \E key \in Keys : GetOrInsertFillFails(key)
    \/ \E key \in Keys, stop \in 0..(NumKeys - 1), patched \in BOOLEAN :
          RemoveRebuildFails(key, stop, patched)
    \/ \E key \in Keys : OutOfBoundsRead(key)

SpecFail == Init /\ [][NextFail]_vars

----------------------------------------------------------------------------
\* Two maps and their comparison.  Both maps are driven by insert,
\* get_or_insert, remove and clear over the keys 1..EqKeys; only a comparison
\* is recorded in `last`, with the left-hand store as `pre`.

EqKeys == 2

Edited == [op |-> "edit", key |-> 0, val |-> 0, ret |-> 0, idx |-> -1,
           calls |-> 0, pre |-> <<>>]

\* insert on the left-hand map (right = FALSE) or the right-hand one.
EqInsert(right, key, value) ==
    /\ IF right
       THEN other' = insert(other, key, value, bits) /\ UNCHANGED store
       ELSE store' = insert(store, key, value, bits) /\ UNCHANGED other
    /\ last' = Edited
    /\ UNCHANGED <<seed, bits, it, abs>>

EqGetOrInsert(right, key, produced) ==
    /\ IF right
       THEN other' = get_or_insert(other, key, produced, bits).store /\ UNCHANGED store
       ELSE store' = get_or_insert(store, key, produced, bits).store /\ UNCHANGED other
    /\ last' = Edited
    /\ UNCHANGED <<seed, bits, it, abs>>

EqRemove(right, key) ==
    /\ IF right
       THEN other' = remove(other, key, bits).store /\ UNCHANGED store
       ELSE store' = remove(store, key, bits).store /\ UNCHANGED other
    /\ last' = Edited
    /\ UNCHANGED <<seed, bits, it, abs>>

EqClear(right) ==
    /\ IF right
       THEN other' = clear(other) /\ UNCHANGED store
       ELSE store' = clear(store) /\ UNCHANGED other
    /\ last' = Edited
    /\ UNCHANGED <<seed, bits, it, abs>>

Compare ==
    /\ last' = Op("eq", 0, 0, IF eq(store, other) THEN 1 ELSE 0, -1, 0)
    /\ UNCHANGED <<store, seed, bits, it, abs, other>>

NextEq ==
    \/ \E right \in BOOLEAN, key \in 1..EqKeys, value \in Vals : EqInsert(right, key, value)
    \/ \E right \in BOOLEAN, key \in 1..EqKeys, produced \in Vals :
          EqGetOrInsert(right, key, produced)
    \/ \E right \in BOOLEAN, key \in 1..EqKeys : EqRemove(right, key)
    \/ \E right \in BOOLEAN : EqClear(right)
    \/ Compare

SpecEq == Init /\ [][NextEq]_vars

----------------------------------------------------------------------------
\* Helpers of the properties

\* The 0-based position of key in s, or -1.
IndexOf(s, key) ==
    IF \E i \in 1..Len(s) : s[i].key = key
    THEN (CHOOSE i \in 1..Len(s) : s[i].key = key) - 1
    ELSE -1

Present(s, key) == IndexOf(s, key) >= 0

\* s without its element of 0-based position idx.
Without(s, idx) ==
    [i \in 1..(Len(s) - 1) |-> IF i <= idx THEN s[i] ELSE s[i + 1]]

----------------------------------------------------------------------------
\* C1: after any sequence of insert, get_or_insert, remove and clear, a
\* forward iteration yields exactly the present entries, in the order in
\* which their keys were first inserted since they were last absent (the
\* reference list: a re-insertion keeps the position, a removal deletes one
\* element and keeps the order of the others).
C1_IterationIsInsertionOrder == iter(store) = abs

\* C1 witness: the middle one of three entries has been removed and the two
\* survivors, which are not in key order, iterate in their insertion order.
C1_Witness ==
    /\ last.op = "remove"
    /\ Len(last.pre) = 3
    /\ IndexOf(last.pre, last.key) = 1
    /\ Len(store) = 2
    /\ store[1].key > store[2].key
    /\ iter(store) = abs

\* C2: for every key, get returns the value most recently stored for it if
\* it is present and the absent result otherwise; every node of the store is
\* found at its own index by the descent from index 0; a new or cleared map
\* has len 0, is empty and returns absent for every key.
C2_GetReturnsLatest ==
    /\ \A key \in Keys : get(store, key) = AbsGet(abs, key)
    /\ \A i \in 1..Len(store) :
          LET r == find(store, store[i].key, store[i].hash)
          IN  r.kind = "Hit" /\ r.idx = i - 1
    /\ last.op = "get" => last.ret = AbsGet(abs, last.key)
    /\ last.op \in {"new", "clear"} =>
          /\ len(store) = 0
          /\ is_empty(store)
          /\ \A key \in Keys : get(store, key) = 0

\* C2 witness: two entries that share a hash, one of them just overwritten
\* with a new value, and an absent key of the same hash.
C2_Witness ==
    /\ last.op = "insert"
    /\ Len(store) = 2
    /\ Len(last.pre) = 2
    /\ store[1].hash = store[2].hash
    /\ get(store, last.key) = last.val
    /\ get(last.pre, last.key) # last.val
    /\ \E key \in Keys : get(store, key) = 0 /\ hash_key(key) = store[1].hash

\* C3: remove of a present key returns its value, decreases len by one,
\* makes a following get of the key absent and leaves the other entries
\* present with their values in the same relative order, whatever the
\* position of the key.
C3_RemovePresent ==
    (last.op = "remove" /\ Present(last.pre, last.key)) =>
        LET idx == IndexOf(last.pre, last.key) IN
        /\ last.ret = last.pre[idx + 1].value
        /\ len(store) = len(last.pre) - 1
        /\ get(store, last.key) = 0
        /\ iter(store) = Without(iter(last.pre), idx)
        /\ \A key \in Keys \ {last.key} : get(store, key) = get(last.pre, key)

\* C3 witness: the root of a three-entry tree whose two other entries were
\* its left and right children is removed.
C3_Witness ==
    /\ last.op = "remove"
    /\ Len(last.pre) = 3
    /\ IndexOf(last.pre, last.key) = 0
    /\ last.pre[1].left # 0
    /\ last.pre[1].right # 0
    /\ Len(store) = 2
    /\ last.ret = last.pre[1].value

\* C7: insert of a present key changes only the value field of its node:
\* get then yields the new value, and len, the node's key, hash, links and
\* index and every other node are unchanged.
C7_OverwriteInPlace ==
    (last.op = "insert" /\ Present(last.pre, last.key)) =>
        LET idx == IndexOf(last.pre, last.key) IN
        /\ get(store, last.key) = last.val
        /\ len(store) = len(last.pre)
        /\ store = [last.pre EXCEPT ![idx + 1] = [@ EXCEPT !.value = last.val]]

\* C7 witness: the root of a three-entry tree, which has a child, is
\* overwritten with a value different from the one it held.
C7_Witness ==
    /\ last.op = "insert"
    /\ Len(last.pre) = 3
    /\ IndexOf(last.pre, last.key) = 0
    /\ last.pre[1].value # last.val
    /\ store[1].value = last.val
    /\ store[1].left # 0 \/ store[1].right # 0

\* C9, the state part: get_or_insert calls the producer zero times when the
\* key is present, returning the existing entry with the store unchanged,
\* and exactly once when it is absent, appending one entry that holds the
\* produced value at the end of the store.
C9_ProducerCalls ==
    last.op = "get_or_insert" =>
        IF Present(last.pre, last.key)
        THEN /\ last.calls = 0
             /\ store = last.pre
             /\ last.idx = IndexOf(last.pre, last.key)
             /\ last.ret = last.pre[last.idx + 1].value
        ELSE /\ last.calls = 1
             /\ len(store) = len(last.pre) + 1
             /\ last.idx = len(last.pre)
             /\ store[len(store)].key = last.key
             /\ store[len(store)].value = last.val
             /\ last.ret = last.val
             /\ iter(store) = Append(iter(last.pre), <<last.key, last.val>>)

\* C9, the step part: a get_or_insert that follows a get_or_insert of the
\* same key refers to the same entry and does not call its producer.
C9_SecondCall ==
    (last.op = "get_or_insert" /\ last'.op = "get_or_insert" /\ last'.key = last.key) =>
        /\ last'.calls = 0
        /\ last'.idx = last.idx
        /\ last'.ret = last.ret
        /\ store' = store

\* C9: get_or_insert invokes the producer zero times when the key is present
\* and exactly once when it is absent, appending the produced value at the
\* end; a second get_or_insert of the same key refers to the same stored
\* entry and does not invoke its producer.
C9_GetOrInsert == []C9_ProducerCalls /\ [][C9_SecondCall]_vars

\* C9 witness: get_or_insert of the key of the third of three entries has
\* returned that entry without calling its producer.
C9_Witness ==
    /\ last.op = "get_or_insert"
    /\ last.calls = 0
    /\ last.idx = 2
    /\ Len(store) = 3
    /\ store[3].key = last.key
    /\ last.ret = store[3].value
    /\ last.pre = store

\* C10: remove of an absent key, the empty map included, returns the absent
\* result and leaves the map unchanged: the same nodes at the same indices
\* with the same keys, hashes, values and links.
C10_RemoveAbsent ==
    (last.op = "remove" /\ ~Present(last.pre, last.key)) =>
        last.ret = 0 /\ store = last.pre

\* C10 witness: an absent key whose hash equals that of a present key has
\* been removed from a map of two entries.
C10_Witness ==
    /\ last.op = "remove"
    /\ ~Present(last.pre, last.key)
    /\ Len(last.pre) = 2
    /\ \E i \in 1..2 : last.pre[i].hash = hash_key(last.key)
    /\ last.ret = 0
    /\ store = last.pre

\* Every present link of s holds an index at which s holds a node.
LinksInRange(s) ==
    \A i \in 1..Len(s) : s[i].left < Len(s) /\ s[i].right < Len(s)

\* C4: in remove of a present key the rebuilt store replaces the map's store
\* only after the rebuild: when the rebuild fails part-way the map holds
\* exactly the entries and links it held before the call.
C4_RebuildThenSwap ==
    last.op = "remove_failed" => store = last.pre

\* C5: in get_or_insert of an absent key no link is written and no node is
\* appended before the producer has returned: when the producer fails the
\* store and all links are as before the call, and no link refers to an
\* index that holds no node.
C5_ProducerBeforePatch ==
    last.op = "get_or_insert_failed" =>
        store = last.pre /\ LinksInRange(store)

\* C6: when the append fails during insert of an absent key, the map holds
\* the same entries as before the call and every present link refers to an
\* index that holds a node, so that no later descent reads outside the store.
C6_InsertFailureKeepsMap ==
    last.op = "insert_failed" =>
        iter(store) = iter(last.pre) /\ LinksInRange(store)

\* The set of (key, value) pairs a map holds.
Pairs(s) == {<<s[i].key, s[i].value>> : i \in 1..Len(s)}

\* C8: for two maps reached by insert, get_or_insert, remove and clear,
\* a == b holds exactly when they hold the same set of (key, value) pairs,
\* whatever the insertion orders and tree shapes; the comparison is
\* symmetric and leaves both maps unchanged.
C8_EqIsSameEntries ==
    /\ eq(store, other) <=> (Pairs(store) = Pairs(other))
    /\ eq(store, other) <=> eq(other, store)
    /\ last.op = "eq" =>
          /\ store = last.pre
          /\ (last.ret = 1) <=> (Pairs(store) = Pairs(other))

\* C8 witness: two maps of the same two entries, inserted in opposite
\* orders and of different tree shapes, have compared equal.
C8_Witness ==
    /\ last.op = "eq"
    /\ last.ret = 1
    /\ Len(store) = 2
    /\ iter(store) # iter(other)
    /\ store[1].left # other[1].left
    /\ store[1].hash # store[2].hash


----------------------------------------------------------------------------
\* Structure of the store

\* The indices reachable from the indices of `set` along at most n links that
\* lie inside the store.
RECURSIVE Closure(_, _, _)
Closure(s, set, n) ==
    IF n = 0 THEN set
    ELSE Closure(s,
                 set \cup {l \in {s[i + 1].left : i \in set} \cup {s[i + 1].right : i \in set} :
                              l # 0 /\ l < Len(s)},
                 n - 1)

\* The indices of the subtree below the link `link` (none for the link 0).
Subtree(s, link) ==
    IF link = 0 \/ link >= Len(s) THEN {} ELSE Closure(s, {link}, Len(s))

\* The places (index, side) of the links of s that hold the index j.
LinksTo(s, j) ==
    {<<i - 1, "left">> : i \in {x \in 1..Len(s) : s[x].left = j}}
    \cup {<<i - 1, "right">> : i \in {x \in 1..Len(s) : s[x].right = j}}

KeySet(s) == {s[i].key : i \in 1..Len(s)}

\* C11: no two nodes of the store hold equal keys and len is the number of
\* distinct keys present; an insertion adds one to len exactly when its key
\* was absent, so that after insertions only len is the number of distinct
\* keys inserted, however often a key was re-inserted; is_empty holds exactly
\* when len is 0.
C11_OneNodePerKey ==
    /\ \A i, j \in 1..Len(store) : store[i].key = store[j].key => i = j
    /\ len(store) = Cardinality({abs[i][1] : i \in 1..Len(abs)})
    /\ len(store) = Cardinality(KeySet(store))
    /\ last.op = "insert" =>
          /\ len(store) = len(last.pre) + (IF last.key \in KeySet(last.pre) THEN 0 ELSE 1)
          /\ KeySet(store) = KeySet(last.pre) \cup {last.key}
    /\ is_empty(store) <=> (len(store) = 0)

\* C11 witness: a key of a map of three keys has been inserted again.
C11_Witness ==
    /\ last.op = "insert"
    /\ last.key \in KeySet(last.pre)
    /\ Len(last.pre) = 3
    /\ Len(store) = 3
    /\ Cardinality(KeySet(store)) = 3


\* C15: at every operation boundary, every present link holds an index
\* smaller than the store length and greater than the index of the node that
\* owns it, so that index 0 is the target of no link; every index from 1 to len - 1
\* is the target of exactly one link; so the links form one tree rooted at
\* index 0, without a cycle.  After a removal the first surviving entry is
\* at index 0 and is the root.
C15_LinksFormOneTree ==
    /\ \A i \in 1..Len(store) : \A l \in {store[i].left, store[i].right} :
          l # 0 => (i - 1 < l /\ l < Len(store))
    /\ \A i \in 1..Len(store) : store[i].left # 0 => store[i].left # store[i].right
    /\ \A j \in 1..(Len(store) - 1) : Cardinality(LinksTo(store, j)) = 1
    /\ Len(store) > 0 => Closure(store, {0}, Len(store)) = 0..(Len(store) - 1)
    /\ (last.op = "remove" /\ Present(last.pre, last.key) /\ Len(store) > 0) =>
          /\ store[1].key = (IF last.pre[1].key = last.key
                             THEN last.pre[2].key ELSE last.pre[1].key)
          /\ Subtree(store, store[1].left) \cup Subtree(store, store[1].right)
               = 1..(Len(store) - 1)

\* C15 witness: the root of three entries has been removed; the second
\* entry is now the root at index 0 and the third hangs beneath it.
C15_Witness ==
    /\ last.op = "remove"
    /\ Len(last.pre) = 3
    /\ last.pre[1].key = last.key
    /\ Len(store) = 2
    /\ store[1].key = last.pre[2].key
    /\ LinksTo(store, 1) # {}
    /\ last.pre[2].left = 0 /\ last.pre[2].right = 0

\* C16: the links form a binary search tree on the cached hashes: every
\* node below the left link of a node has a smaller hash, every node below
\* its right link has a greater or equal hash, and of two nodes of equal
\* hash the later one is below the right link of the earlier one.  A removal
\* re-establishes this.
C16_SearchTreeOnHashes ==
    /\ \A i \in 1..Len(store) :
          /\ \A j \in Subtree(store, store[i].left) : store[j + 1].hash < store[i].hash
          /\ \A j \in Subtree(store, store[i].right) : store[j + 1].hash >= store[i].hash
    /\ \A i, j \in 1..Len(store) :
          (i < j /\ store[i].hash = store[j].hash) =>
              (j - 1) \in Subtree(store, store[i].right)

\* C16 witness: a removal has rebuilt a tree of two entries of equal hash,
\* the second below the right link of the first, from a tree in which an
\* entry of smaller hash stood between them.
C16_Witness ==
    /\ last.op = "remove"
    /\ Len(last.pre) = 3
    /\ IndexOf(last.pre, last.key) = 1
    /\ last.pre[2].hash < last.pre[1].hash
    /\ Len(store) = 2
    /\ store[1].hash = store[2].hash
    /\ store[1].right = 1


\* The places (index, side) at which the links of a and b differ, over the
\* indices both hold.
ChangedLinks(a, b) ==
    {<<i - 1, "left">> : i \in {x \in 1..Len(a) : x <= Len(b) /\ a[x].left # b[x].left}}
    \cup {<<i - 1, "right">> : i \in {x \in 1..Len(a) : x <= Len(b) /\ a[x].right # b[x].right}}

\* C18: insert of an absent key appends exactly one node (key, hash of the
\* key, value, no children) at index len and writes exactly one link of one
\* existing node: the absent link the descent reported, which becomes the
\* index of the new node (no link when the store was empty).  Every other
\* link and the key, hash and value of every existing node are unchanged; a
\* present link is never overwritten by a later insertion into the store.
C18_InsertAppendsAndPatchesOne ==
    /\ (last.op = "insert" /\ ~Present(last.pre, last.key)) =>
          LET pre == last.pre
              n == Len(pre)
              r == find(pre, last.key, hash_key(last.key))
          IN  /\ Len(store) = n + 1
              /\ store[n + 1] = [key |-> last.key, hash |-> hash_key(last.key),
                                 value |-> last.val, left |-> 0, right |-> 0]
              /\ \A i \in 1..n :
                    /\ store[i].key = pre[i].key
                    /\ store[i].hash = pre[i].hash
                    /\ store[i].value = pre[i].value
              /\ r.kind = "Miss"
              /\ IF n = 0
                 THEN r.side = "none"
                 ELSE /\ ChangedLinks(pre, store) = {<<r.idx, r.side>>}
                      /\ IF r.side = "left"
                         THEN pre[r.idx + 1].left = 0 /\ store[r.idx + 1].left = n
                         ELSE pre[r.idx + 1].right = 0 /\ store[r.idx + 1].right = n
    /\ last.op \in {"insert", "get_or_insert"} =>
          \A i \in 1..Len(last.pre) :
              /\ last.pre[i].left # 0 => store[i].left = last.pre[i].left
              /\ last.pre[i].right # 0 => store[i].right = last.pre[i].right

\* C18 witness: a third key has been inserted beneath the second node, whose
\* link was absent, while the root's present link stayed as it was.
C18_Witness ==
    /\ last.op = "insert"
    /\ Len(last.pre) = 2
    /\ Len(store) = 3
    /\ ChangedLinks(last.pre, store) = {<<1, "left">>}
    /\ store[2].left = 2
    /\ store[1].right = 1
    /\ last.pre[1].right = 1

\* The indices the loop of find reads, in order, for the query (key, hash),
\* as far as it gets in `fuel` steps.
RECURSIVE Visits(_, _, _, _, _)
Visits(s, key, hash, idx, fuel) ==
    IF fuel = 0 \/ idx >= Len(s) THEN <<>>
    ELSE LET node == s[idx + 1]
             next == IF hash = node.hash /\ key = node.key THEN 0
                     ELSE IF hash < node.hash THEN node.left ELSE node.right
         IN  IF next = 0 THEN <<idx>>
             ELSE <<idx>> \o Visits(s, key, hash, next, fuel - 1)

\* C19: for every reachable store and every query key and hash, the loop of
\* find ends in a hit or a miss after reading at most len nodes, and reads
\* no index twice; so get, insert, get_or_insert, remove and the comparison
\* end, and the rebuild of remove re-inserts exactly len - 1 nodes.
C19_DescentTerminates ==
    /\ \A key \in Keys, hash \in 0..(HashRange - 1) :
          LET r == find(store, key, hash)
              v == Visits(store, key, hash, 0, Len(store) + 1)
          IN  /\ r.kind \in {"Hit", "Miss"}
              /\ r.visited <= len(store)
              /\ Len(v) = r.visited
              /\ \A a, b \in 1..Len(v) : v[a] = v[b] => a = b
    /\ (last.op = "remove" /\ Present(last.pre, last.key)) =>
          len(store) = len(last.pre) - 1

\* C19 witness: a descent has read all three nodes of a store, a chain, and
\* a removal of the middle node of such a chain has re-inserted two nodes.
C19_Witness ==
    /\ last.op = "remove"
    /\ Len(last.pre) = 3
    /\ \E key \in Keys : find(last.pre, key, hash_key(key)).visited = 3
    /\ IndexOf(last.pre, last.key) = 1
    /\ Len(store) = 2
    /\ \E key \in Keys : find(store, key, hash_key(key)).visited = 2


----------------------------------------------------------------------------
\* Two maps under two hash functions, driven by the same operations: `store`
\* hashes with hash_key, `other` with hash_other.  `last` records what the
\* operation returned from each.

\* hash_key with a second hasher key; one of the two functions of every
\* pair maps all keys to one value when seed or seed + 1 is a multiple of
\* NumSeeds.
hash_other(key) == (key * ((seed + 1) % NumSeeds)) % HashRange

\* Map::insert, with the result of hash_key(&key) given as `hash`.
insert_with(s, key, hash, value, w) ==
    LET r == find(s, key, hash)
    IN  IF r.kind = "Hit"
        THEN [s EXCEPT ![r.idx + 1] = [@ EXCEPT !.value = value]]
        ELSE push(patch(s, r, w), Node(key, value, hash))

\* Map::get, with the result of hash_key(key) given as `hash`.
get_with(s, key, hash) ==
    LET r == find(s, key, hash)
    IN  IF r.kind = "Hit" THEN s[r.idx + 1].value ELSE 0

\* Map::get_or_insert, with the result of hash_key(&key) given as `hash`.
get_or_insert_with(s, key, hash, produced, w) ==
    LET r == find(s, key, hash)
    IN  IF r.kind = "Hit"
        THEN [store |-> s, idx |-> r.idx, calls |-> 0]
        ELSE [store |-> push(patch(s, r, w), Node(key, produced, hash)),
              idx |-> Len(s), calls |-> 1]

\* Map::remove, with the result of hash_key(key) given as `hash`.
remove_with(s, key, hash, w) ==
    LET r == find(s, key, hash)
    IN  IF r.kind # "Hit"
        THEN [store |-> s, removed |-> 0]
        ELSE [store |-> rebuild(s, r.idx, 0, Len(s), <<>>, w),
              removed |-> s[r.idx + 1].value]

\* The values the two maps are given: the tree never reads a value, and two
\* of them tell an overwritten entry from a kept one.
TwinVals == {1, NumVals}

Both(op, key, val, ret, calls, twin_ret, twin_calls) ==
    [op |-> op, key |-> key, val |-> val, ret |-> ret, idx |-> -1,
     calls |-> calls, pre |-> store,
     twin_ret |-> twin_ret, twin_calls |-> twin_calls, twin_pre |-> other]

DefinedBoth(key) ==
    /\ Defined(store, key)
    /\ find(other, key, hash_other(key)).kind \in {"Hit", "Miss"}

\* insert on both maps; the result is the value the key had (0: None).
HashInsert(key, value) ==
    /\ DefinedBoth(key)
    /\ store' = insert(store, key, value, bits)
    /\ other' = insert_with(other, key, hash_other(key), value, bits)
    /\ last' = Both("insert", key, value, get(store, key), 0,
                    get_with(other, key, hash_other(key)), 0)
    /\ UNCHANGED <<seed, bits, it, abs>>

HashGetOrInsert(key, produced) ==
    /\ DefinedBoth(key)
    /\ LET g == get_or_insert(store, key, produced, bits)
           h == get_or_insert_with(other, key, hash_other(key), produced, bits)
       IN  /\ store' = g.store
           /\ other' = h.store
           /\ last' = Both("get_or_insert", key, produced,
                           g.store[g.idx + 1].value, g.calls,
                           h.store[h.idx + 1].value, h.calls)
    /\ UNCHANGED <<seed, bits, it, abs>>

HashRemove(key) ==
    /\ DefinedBoth(key)
    /\ LET r == remove(store, key, bits)
           q == remove_with(other, key, hash_other(key), bits)
       IN  /\ store' = r.store
           /\ other' = q.store
           /\ last' = Both("remove", key, 0, r.removed, 0, q.removed, 0)
    /\ UNCHANGED <<seed, bits, it, abs>>

HashClear ==
    /\ store' = clear(store)
    /\ other' = clear(other)
    /\ last' = Both("clear", 0, 0, 0, 0, 0, 0)
    /\ UNCHANGED <<seed, bits, it, abs>>

NextHash ==
    \/ \E key \in Keys, value \in TwinVals : HashInsert(key, value)
    \/ \E key \in Keys, produced \in TwinVals : HashGetOrInsert(key, produced)
    \/ \E key \in Keys : HashRemove(key)
    \/ HashClear

SpecHash == Init /\ [][NextHash]_vars

\* Nodes of equal hash in s are each found by their own key, and the later
\* one is in the right subtree of the earlier.
CollidingKept(s) ==
    \A i, j \in 1..Len(s) :
        (i < j /\ s[i].hash = s[j].hash) =>
            /\ s[i].key # s[j].key
            /\ find(s, s[i].key, s[i].hash) = FindResult("Hit", i - 1, "none",
                                                         find(s, s[i].key, s[i].hash).visited)
            /\ find(s, s[j].key, s[j].hash).kind = "Hit"
            /\ find(s, s[j].key, s[j].hash).idx = j - 1
            /\ (j - 1) \in Subtree(s, s[i].right)

\* C12: two maps driven by the same operations under two hash functions,
\* one of which may map all keys to one value, give the same results at
\* every step: what insert, get_or_insert and remove returned and how often
\* the producer ran, what get returns for every key, the length, the
\* iteration order, and the result of comparing the map with the map before
\* the operation.  Distinct keys of equal hash are both stored and both
\* found, the later in the right subtree of the earlier.
C12_HashIndependent ==
    /\ last.op # "new" =>
          /\ last.ret = last.twin_ret
          /\ last.calls = last.twin_calls
          /\ eq(last.pre, store) = eq(last.twin_pre, other)
          /\ eq(store, last.pre) = eq(other, last.twin_pre)
    /\ \A key \in Keys : get(store, key) = get_with(other, key, hash_other(key))
    /\ len(store) = len(other)
    /\ is_empty(store) = is_empty(other)
    /\ iter(store) = iter(other)
    /\ CollidingKept(store)
    /\ CollidingKept(other)

\* C12 witness: three keys of pairwise different hashes in one map and of
\* one hash in the other, the trees of different shape, and a removal of the
\* first of them that returned its value from both.
C12_Witness ==
    /\ last.op = "remove"
    /\ Len(last.pre) = 3
    /\ IndexOf(last.pre, last.key) = 0
    /\ last.ret # 0
    /\ \A i, j \in 1..3 : last.pre[i].hash = last.pre[j].hash => i = j
    /\ \A i, j \in 1..3 : last.twin_pre[i].hash = last.twin_pre[j].hash
    /\ last.pre[1].left # 0
    /\ Len(other) = 2
    /\ other[1].right = 1
    /\ store[1].right = 0


----------------------------------------------------------------------------
\* Bulk construction.  from_iter builds `store` from a sequence of pairs in
\* one step; the same pairs are then inserted one by one into `other`, which
\* starts as Map::new().  `last` holds the pairs (val) and how many of them
\* have been inserted into `other` (idx).

MaxPairs == 3

\* Map::with_capacity: an empty store; the capacity is not part of the
\* store's contents.
with_capacity(capacity) == <<>>

\* Mutant of from_iter_loop: the pairs are inserted from the last to the first.
RECURSIVE from_iter_backwards(_, _, _, _)
from_iter_backwards(map, pairs, i, w) ==
    IF i > Len(pairs) THEN map
    ELSE from_iter_backwards(insert(map, pairs[Len(pairs) + 1 - i][1],
                                    pairs[Len(pairs) + 1 - i][2], w),
                             pairs, i + 1, w)

\* The loop of from_iter from the i-th pair on: `map.insert(key, value.into())`.
RECURSIVE from_iter_loop(_, _, _, _)
from_iter_loop(map, pairs, i, w) ==
    IF i > Len(pairs) THEN map
    ELSE from_iter_loop(insert(map, pairs[i][1], pairs[i][2], w), pairs, i + 1, w)

\* FromIterator for Map: the store of the map built from `pairs`; the size
\* hint of a sequence is its length.
from_iter(pairs, w) == from_iter_loop(with_capacity(Len(pairs)), pairs, 1, w)

RECURSIVE SeqsUpTo(_, _)
SeqsUpTo(S, n) ==
    IF n = 0 THEN {<<>>}
    ELSE LET shorter == SeqsUpTo(S, n - 1)
         IN  shorter \cup {Append(q, x) : q \in shorter, x \in S}

PairSeqs == SeqsUpTo(Keys \X TwinVals, MaxPairs)

\* from_iter is a constructor: it makes the map of a behaviour.
FromIter(pairs) ==
    /\ last.op = "new"
    /\ store' = from_iter(pairs, bits)
    /\ other' = <<>>
    /\ last' = [op |-> "from_iter", key |-> 0, val |-> pairs, ret |-> 0, idx |-> 0,
                calls |-> 0, pre |-> <<>>]
    /\ UNCHANGED <<seed, bits, it, abs>>

\* The next pair of the sequence is inserted into the map built step by step.
InsertNext ==
    /\ last.op = "from_iter"
    /\ last.idx < Len(last.val)
    /\ other' = insert(other, last.val[last.idx + 1][1], last.val[last.idx + 1][2], bits)
    /\ last' = [last EXCEPT !.idx = @ + 1]
    /\ UNCHANGED <<store, seed, bits, it, abs>>

NextBulk ==
    \/ \E pairs \in PairSeqs : FromIter(pairs)
    \/ InsertNext

SpecBulk == Init /\ [][NextBulk]_vars

DistinctKeys(pairs) == \A i, j \in 1..Len(pairs) : pairs[i][1] = pairs[j][1] => i = j

\* C13: the map built in bulk from a sequence of pairs has the same nodes in
\* the same order with the same links as the map the pairs were inserted
\* into one by one, and compares equal to it; when the keys of the sequence
\* are pairwise distinct, iterating the built map yields the sequence itself.
C13_BulkIsRepeatedInsert ==
    last.op = "from_iter" =>
        /\ last.idx = Len(last.val) => (store = other /\ eq(store, other) /\ eq(other, store))
        /\ DistinctKeys(last.val) => iter(store) = last.val
        /\ len(store) = Cardinality({last.val[i][1] : i \in 1..Len(last.val)})

\* C13 witnesses: three pairs of distinct keys built in bulk and inserted one
\* by one, with a left link in the tree; and a sequence that repeats a key.
C13_Witness ==
    /\ last.op = "from_iter"
    /\ Len(last.val) = 3
    /\ last.idx = 3
    /\ DistinctKeys(last.val)
    /\ Len(store) = 3
    /\ \E i \in 1..3 : store[i].left # 0

C13_WitnessRepeat ==
    /\ last.op = "from_iter"
    /\ Len(last.val) = 3
    /\ last.idx = 3
    /\ last.val[1][1] = last.val[3][1]
    /\ last.val[1][2] # last.val[3][2]
    /\ Len(other) = 2


----------------------------------------------------------------------------
\* Iterators.  An iterator borrows the map, so the map is edited only while
\* no iterator lives.  `it` holds the two ends of the slice iterator (lo is
\* the index next yields, hi - 1 the index next_back yields), the number n of
\* entries the iterator was made over, and the yields so far as <<call,
\* index>>; `last` records a call of next or next_back: what it returned
\* (ret, <<>> for None), the index read (idx) and the number of yields before
\* the call (calls).

NoIter == [src |-> "none", mutable |-> FALSE, lo |-> 0, hi |-> 0, n |-> 0, out |-> <<>>]

\* Map::iter and Map::iter_mut: `self.store.iter()`.
Iter_new(s, mutable) ==
    [src |-> "map", mutable |-> mutable, lo |-> 0, hi |-> Len(s), n |-> Len(s), out |-> <<>>]

\* Iter::empty and IterMut::empty: `[].iter()`.
Iter_empty(mutable) ==
    [src |-> "empty", mutable |-> mutable, lo |-> 0, hi |-> 0, n |-> 0, out |-> <<>>]

\* Iter::next and IterMut::next: the iterator after the call and the index
\* of the node yielded, -1 for None.
Iter_next(i) ==
    IF i.lo < i.hi
    THEN [it |-> [i EXCEPT !.lo = @ + 1, !.out = Append(@, <<"next", i.lo>>)], idx |-> i.lo]
    ELSE [it |-> i, idx |-> -1]

\* Mutant of Iter_next_back: the back end is compared with the start of the
\* slice instead of the front end.
Iter_next_back_past_front(i) ==
    IF 0 < i.hi
    THEN [it |-> [i EXCEPT !.hi = @ - 1, !.out = Append(@, <<"next_back", i.hi - 1>>)],
          idx |-> i.hi - 1]
    ELSE [it |-> i, idx |-> -1]

\* Iter::next_back and IterMut::next_back.
Iter_next_back(i) ==
    IF i.lo < i.hi
    THEN [it |-> [i EXCEPT !.hi = @ - 1, !.out = Append(@, <<"next_back", i.hi - 1>>)],
          idx |-> i.hi - 1]
    ELSE [it |-> i, idx |-> -1]

\* ExactSizeIterator::len
Iter_len(i) == i.hi - i.lo

\* `.map(|node| (&node.key, &node.value))`: the item for index idx, <<>> for None.
Item(s, idx) == IF idx < 0 THEN <<>> ELSE <<s[idx + 1].key, s[idx + 1].value>>

IterInsert(key, value) ==
    /\ it.src = "none"
    /\ store' = insert(store, key, value, bits)
    /\ last' = Edited
    /\ UNCHANGED <<seed, bits, it, abs, other>>

IterRemove(key) ==
    /\ it.src = "none"
    /\ store' = remove(store, key, bits).store
    /\ last' = Edited
    /\ UNCHANGED <<seed, bits, it, abs, other>>

MapIter(mutable) ==
    /\ it.src = "none"
    /\ it' = Iter_new(store, mutable)
    /\ last' = Edited
    /\ UNCHANGED <<store, seed, bits, abs, other>>

EmptyIter(mutable) ==
    /\ it.src = "none"
    /\ it' = Iter_empty(mutable)
    /\ last' = Edited
    /\ UNCHANGED <<store, seed, bits, abs, other>>

IterNext ==
    /\ it.src # "none"
    /\ LET r == Iter_next(it)
       IN  /\ it' = r.it
           /\ last' = [Edited EXCEPT !.op = "next", !.ret = Item(store, r.idx),
                                     !.idx = r.idx, !.calls = Len(it.out)]
    /\ UNCHANGED <<store, seed, bits, abs, other>>

IterNextBack ==
    /\ it.src # "none"
    /\ LET r == Iter_next_back(it)
       IN  /\ it' = r.it
           /\ last' = [Edited EXCEPT !.op = "next_back", !.ret = Item(store, r.idx),
                                     !.idx = r.idx, !.calls = Len(it.out)]
    /\ UNCHANGED <<store, seed, bits, abs, other>>

\* The iterator is dropped; the map can be edited, or iterated afresh.
IterDrop ==
    /\ it.src # "none"
    /\ it' = NoIter
    /\ last' = Edited
    /\ UNCHANGED <<store, seed, bits, abs, other>>

NextIter ==
    \/ \E key \in Keys, value \in TwinVals : IterInsert(key, value)
    \/ \E key \in Keys : IterRemove(key)
    \/ \E mutable \in BOOLEAN : MapIter(mutable)
    \/ \E mutable \in BOOLEAN : EmptyIter(mutable)
    \/ IterNext
    \/ IterNextBack
    \/ IterDrop

SpecIter == Init /\ [][NextIter]_vars

\* The indices yielded by the calls named `call`, in the order of the calls.
YieldsOf(call) ==
    LET picked == SelectSeq(it.out, LAMBDA y : y[1] = call)
    IN  [k \in 1..Len(picked) |-> picked[k][2]]

\* In every state of an iterator over a map of n entries: no index has been
\* yielded twice and all of 0..n-1 have been once n yields are made; next
\* has yielded 0, 1, 2, ... and next_back n-1, n-2, ...; the reported count
\* is n less the number of yields; a call returned None exactly when n
\* entries had been yielded before it, and otherwise the entry at the index
\* it read.  An empty iterator reports 0 and has returned None only.
C14_IteratorState ==
    /\ it.src = "map" =>
          /\ it.n = Len(store)
          /\ \A a, b \in 1..Len(it.out) : it.out[a][2] = it.out[b][2] => a = b
          /\ \A a \in 1..Len(it.out) : it.out[a][2] \in 0..(it.n - 1)
          /\ Len(it.out) = it.n => {it.out[a][2] : a \in 1..Len(it.out)} = 0..(it.n - 1)
          /\ \A k \in 1..Len(YieldsOf("next")) : YieldsOf("next")[k] = k - 1
          /\ \A k \in 1..Len(YieldsOf("next_back")) : YieldsOf("next_back")[k] = it.n - k
          /\ Iter_len(it) = it.n - Len(it.out)
          /\ Len(it.out) <= it.n
          /\ last.op \in {"next", "next_back"} =>
                /\ (last.ret = <<>>) <=> (last.calls = it.n)
                /\ last.ret # <<>> => last.ret = iter(store)[last.idx + 1]
    /\ it.src = "empty" =>
          /\ Iter_len(it) = 0
          /\ it.out = <<>>
          /\ last.op \in {"next", "next_back"} => last.ret = <<>>

\* A call on an iterator that has nothing left returns None and leaves the
\* iterator as it was.
C14_ExhaustedStays ==
    (it.src # "none" /\ Iter_len(it) = 0 /\ it'.src # "none") =>
        /\ it' = it
        /\ last'.ret = <<>>
        /\ Iter_len(it') = 0

\* C14: for an iterator over a map of n entries, under any interleaving of
\* next and next_back: each entry is yielded exactly once, next in
\* increasing and next_back in decreasing store index, the remaining count
\* after j yields is n - j, and once n entries are yielded both calls return
\* None for ever; an empty iterator reports 0 and returns None on every call.
C14_Iterator == []C14_IteratorState /\ [][C14_ExhaustedStays]_vars

\* C14 witness: an iterator over three entries has yielded all of them, from
\* the front, the back and the front again, and a further call of next_back
\* has returned None.
C14_Witness ==
    /\ it.src = "map"
    /\ it.n = 3
    /\ it.out = <<<<"next", 0>>, <<"next_back", 2>>, <<"next", 1>>>>
    /\ last.op = "next_back"
    /\ last.ret = <<>>
    /\ last.calls = 3

\* C14 witness: an empty iterator has been asked for an entry.
C14_WitnessEmpty ==
    /\ it.src = "empty"
    /\ it.mutable
    /\ last.op = "next"
    /\ last.ret = <<>>


----------------------------------------------------------------------------
\* Operations on a shared reference.  Each after_ operator is the store an
\* operation that takes `&self` leaves behind: the code of these operations
\* reads links with Cell::get and calls Cell::set nowhere.

\* Mutant of after_find: a miss caches the place it ended at in the link.
after_find_caching(s, key, hash) ==
    LET r == find(s, key, hash)
    IN  IF r.kind = "Miss" THEN patch(s, r, LinkBits) ELSE s

\* Map::find
after_find(s, key, hash) == s

\* Map::get: `self.find(key, hash)` and a read of the value.
after_get(s, key) == after_find(s, key, hash_key(key))

\* Map::len, Map::is_empty
after_len(s) == s

\* PartialEq::eq from the i-th node of a on: one `other.find` for each node
\* of a until one fails; the store of b it leaves.
RECURSIVE after_eq_loop(_, _, _)
after_eq_loop(a, b, i) ==
    IF i > Len(a) THEN b
    ELSE LET r == find(b, a[i].key, a[i].hash)
             b2 == after_find(b, a[i].key, a[i].hash)
         IN  IF r.kind = "Hit" /\ b[r.idx + 1].value = a[i].value
             THEN after_eq_loop(a, b2, i + 1)
             ELSE b2

\* PartialEq::eq: the store of the right-hand map after a == b.
after_eq(a, b) == IF len(a) # len(b) THEN b ELSE after_eq_loop(a, b, 1)

\* Map::iter and a loop over Iter::next to the end.
after_iter(s) == s

ReadOps == {"find", "get", "len", "is_empty", "eq", "iterate"}

ReadFind(key, hash) ==
    /\ Defined(store, key)
    /\ store' = after_find(store, key, hash)
    /\ last' = Op("find", key, hash, find(store, key, hash).idx, -1, 0)
    /\ UNCHANGED <<seed, bits, it, abs, other>>

ReadGet(key) ==
    /\ Defined(store, key)
    /\ store' = after_get(store, key)
    /\ last' = Op("get", key, 0, get(store, key), -1, 0)
    /\ UNCHANGED <<seed, bits, it, abs, other>>

ReadLen ==
    /\ store' = after_len(store)
    /\ last' = Op("len", 0, 0, len(store), -1, 0)
    /\ UNCHANGED <<seed, bits, it, abs, other>>

ReadIsEmpty ==
    /\ store' = after_len(store)
    /\ last' = Op("is_empty", 0, 0, IF is_empty(store) THEN 1 ELSE 0, -1, 0)
    /\ UNCHANGED <<seed, bits, it, abs, other>>

\* The map is compared with itself: every node is looked up in the store.
ReadEq ==
    /\ store' = after_eq(store, store)
    /\ last' = Op("eq", 0, 0, IF eq(store, store) THEN 1 ELSE 0, -1, 0)
    /\ UNCHANGED <<seed, bits, it, abs, other>>

ReadIterate ==
    /\ store' = after_iter(store)
    /\ last' = Op("iterate", 0, 0, Len(iter(store)), -1, 0)
    /\ UNCHANGED <<seed, bits, it, abs, other>>

NextRead ==
    \/ \E key \in Keys, value \in TwinVals : Insert(key, value)
    \/ \E key \in Keys, produced \in TwinVals : GetOrInsert(key, produced)
    \/ \E key \in Keys : Remove(key)
    \/ Clear
    \/ \E key \in Keys, hash \in 0..(HashRange - 1) : ReadFind(key, hash)
    \/ \E key \in Keys : ReadGet(key)
    \/ ReadLen
    \/ ReadIsEmpty
    \/ ReadEq
    \/ ReadIterate

SpecRead == Init /\ [][NextRead]_vars

\* A step of find, get, len, is_empty, eq or an iteration leaves every node
\* of the store as it was; a step that changes a link of a node is a step
\* of insert, get_or_insert or remove.
C17_Step ==
    /\ last'.op \in ReadOps => store' = store
    /\ ChangedLinks(store, store') # {} => last'.op \in {"insert", "get_or_insert", "remove"}

\* C17: the descent and every operation on a shared reference (get, len,
\* is_empty, comparison, iteration) leave the store unchanged: the same
\* nodes, keys, hashes, values and links; links are written only inside
\* insert, get_or_insert and remove.
C17_ReadsKeepStore ==
    /\ [](last.op \in ReadOps => store = last.pre)
    /\ [][C17_Step]_vars

\* C17 witness: a descent for an absent key has ended at a missing link of a
\* store of three nodes, one of them a left child, and the store is as
\* before.
C17_Witness ==
    /\ last.op = "find"
    /\ Len(store) = 3
    /\ \E i \in 1..3 : store[i].left # 0
    /\ find(store, last.key, last.val).kind = "Miss"
    /\ find(store, last.key, last.val).visited = 3
    /\ store = last.pre


----------------------------------------------------------------------------
\* Links of a narrow width.  The store outgrows the range of a link of
\* `bits` bits when it holds 2^bits nodes; a node whose link was narrowed to
\* 0 or to another node's index is not found again, so a key can be stored
\* more than once and the store is cut off at NarrowMaxLen nodes.  A call
\* whose descent would not end is not taken.

MaxNarrowBits == 2
NarrowMaxLen == 4

InitNarrow ==
    /\ store = <<>>
    /\ seed \in Seeds
    /\ bits \in (1..MaxNarrowBits) \cup {LinkBits}
    /\ last = [op |-> "new", key |-> 0, val |-> 0, ret |-> 0, idx |-> -1,
               calls |-> 0, pre |-> <<>>]
    /\ abs = <<>>
    /\ other = <<>>
    /\ it = NoIter

\* Every descent of the loop of Map::remove from position i on ends.
RECURSIVE rebuild_defined(_, _, _, _, _)
rebuild_defined(old, index, i, acc, w) ==
    IF i >= Len(old) THEN TRUE
    ELSE IF i = index THEN rebuild_defined(old, index, i + 1, acc, w)
    ELSE /\ find(acc, old[i + 1].key, old[i + 1].hash).kind \in {"Hit", "Miss"}
         /\ rebuild_defined(old, index, i + 1,
                            reinsert(acc, old[i + 1].key, old[i + 1].value, old[i + 1].hash, w), w)

NarrowInsert(key, value) ==
    /\ Defined(store, key)
    /\ Len(store) < NarrowMaxLen
    /\ store' = insert(store, key, value, bits)
    /\ last' = Op("insert", key, value, 0, -1, 0)
    /\ UNCHANGED <<seed, bits, it, abs, other>>

NarrowGetOrInsert(key, produced) ==
    /\ Defined(store, key)
    /\ Len(store) < NarrowMaxLen
    /\ LET g == get_or_insert(store, key, produced, bits)
       IN  /\ store' = g.store
           /\ last' = Op("get_or_insert", key, IF g.calls = 0 THEN 0 ELSE produced,
                         g.store[g.idx + 1].value, g.idx, g.calls)
    /\ UNCHANGED <<seed, bits, it, abs, other>>

NarrowRemove(key) ==
    /\ Defined(store, key)
    /\ LET f == find(store, key, hash_key(key))
       IN  f.kind = "Hit" => rebuild_defined(store, f.idx, 0, <<>>, bits)
    /\ LET r == remove(store, key, bits)
       IN  /\ store' = r.store
           /\ last' = Op("remove", key, 0, r.removed, -1, 0)
    /\ UNCHANGED <<seed, bits, it, abs, other>>

NextNarrow ==
    \/ \E key \in Keys : NarrowInsert(key, 1)
    \/ \E key \in Keys : NarrowGetOrInsert(key, 1)
    \/ \E key \in Keys : NarrowRemove(key)

SpecNarrow == InitNarrow /\ [][NextNarrow]_vars

LinkAt(s, idx, side) == IF side = "left" THEN s[idx + 1].left ELSE s[idx + 1].right

\* The link written when a node is attached to the store `before` at the
\* place r, giving the store `after`, is the length of `before` narrowed to
\* w bits, 0 standing for no child; it is present and the index of the new
\* node when that length is below 2^w, and not that index otherwise.
Attached(before, after, r, w) ==
    (r.kind = "Miss" /\ r.side # "none") =>
        LET link == LinkAt(after, r.idx, r.side)
        IN  /\ link = Len(before) % (2 ^ w)
            /\ Len(after) = Len(before) + 1
            /\ Len(before) < 2 ^ w => (link # 0 /\ link = Len(after) - 1)
            /\ Len(before) >= 2 ^ w => link # Len(after) - 1

\* C20: whenever insert, get_or_insert or the rebuild of remove attaches a
\* node beneath a parent, the link written is the index of the new node
\* narrowed to the width of a link, 0 meaning no child: it equals len mod
\* 2^w, and it is present and the exact index of the new node when len <
\* 2^w, which holds for every store of fewer than 2^32 nodes at width 32.
C20_LinkIsNarrowedIndex ==
    /\ last.op \in {"insert", "get_or_insert"} =>
          Attached(last.pre, store, find(last.pre, last.key, hash_key(last.key)), bits)
    /\ last.op = "remove" =>
          LET f == find(last.pre, last.key, hash_key(last.key))
          IN  f.kind = "Hit" =>
                \A k \in 0..(Len(last.pre) - 1) :
                    k # f.idx =>
                        LET acc == rebuild(last.pre, f.idx, 0, k, <<>>, bits)
                        IN  Attached(acc,
                                     rebuild(last.pre, f.idx, 0, k + 1, <<>>, bits),
                                     find(acc, last.pre[k + 1].key, last.pre[k + 1].hash),
                                     bits)
    /\ bits = LinkBits =>
          \A i \in 1..Len(store) : \A l \in {store[i].left, store[i].right} :
              l # 0 => (l < Len(store) /\ l > i - 1)

\* C20 witness: with links of one bit, an insert into a store of three nodes
\* has written the link 1 for the node it stored at index 3.
C20_Witness ==
    /\ bits = 1
    /\ last.op = "insert"
    /\ Len(last.pre) = 3
    /\ Len(store) = 4
    /\ LET r == find(last.pre, last.key, hash_key(last.key))
       IN  /\ r.kind = "Miss"
           /\ r.side # "none"
           /\ LinkAt(last.pre, r.idx, r.side) = 0
           /\ LinkAt(store, r.idx, r.side) = 1

\* C20 witness: with links of one bit, the rebuild of remove has attached
\* the node it stored at index 2 with the link 0, no child.
C20_WitnessRebuild ==
    /\ bits = 1
    /\ last.op = "remove"
    /\ Len(last.pre) = 4
    /\ Len(store) = 3
    /\ \A i \in 1..3 : store[i].left # 2 /\ store[i].right # 2

\* C20 witness: with links of full width a third node has been attached with
\* its own index.
C20_WitnessWide ==
    /\ bits = LinkBits
    /\ last.op = "get_or_insert"
    /\ Len(last.pre) = 2
    /\ Len(store) = 3
    /\ \E i \in 1..2 : store[i].left = 2 \/ store[i].right = 2

====
